---- MODULE Spec2Model ----
(***************************************************************************)
(* Model of dump/dump.hpp: the DUMP(...) macro, the Dump<F> object it      *)
(* builds (labels, separators and a closure over the call site), the       *)
(* as()/sep() configuration calls and the two render paths (operator<<     *)
(* and str()).                                                             *)
(*                                                                         *)
(* Text is a sequence of one-character strings.  A call site is a list of  *)
(* argument tokens as written; the preprocessor expands object-like macros *)
(* before the arguments reach DUMP_INTERNAL.  The closure captures the     *)
(* call site by reference ([&]) and evaluates the argument expressions on  *)
(* every call.                                                             *)
(***************************************************************************)
EXTENDS Integers, Sequences, FiniteSets, TLC

VARIABLES
    pc,          \* "start" before the DUMP statement, "run" after, "crashed"
    site,        \* the argument list as written at the call site
    env,         \* the named variables of the enclosing scope
    recs,        \* the Dump objects: recs[1] = DUMP(...), recs[2] = latest as() result
    os,          \* text produced by the most recent render
    last,        \* index of the record most recently rendered (0: none since as/sep)
    vals,        \* values shown by the most recent render, per argument
    evals,       \* evaluations of each argument by the most recent record operation
    streak,      \* consecutive renders of recs[last] with nothing in between (0, 1, 2+)
    oob,         \* the most recent render indexed names past its end
    dangling,    \* the most recent render read a temporary after its lifetime
    viaMismatch, \* recs[2] came from as() on a receiver with a wrong label count
    op           \* the statement executed last: its name, receiver and arguments

vars == <<pc, site, env, recs, os, last, vals, evals, streak, oob, dangling, viaMismatch, op>>

---------------------------------------------------------------------------
(* Bounds and inputs *)

MaxVal == 1

Vars == {"a", "b"}

Mutable == {"a"}

EnvInit == [v \in Vars |-> 0]

Orders == {"ltr", "rtl"}

UBOutcomes == {"garbage", "crash"}

---------------------------------------------------------------------------
(* Text *)

DigitChars == <<"0", "1", "2", "3", "4", "5", "6", "7", "8", "9">>

RECURSIVE ToText(_)
ToText(n) ==
    IF n < 0 THEN <<"?">>
    ELSE IF n < Len(DigitChars) THEN <<DigitChars[n + 1]>>
    ELSE ToText(n \div Len(DigitChars)) \o <<DigitChars[(n % Len(DigitChars)) + 1]>>

---------------------------------------------------------------------------
(* Argument tokens *)

Var(v) == [k |-> "var", v |-> v, n |-> 0]

Lit(n) == [k |-> "lit", v |-> "-", n |-> n]

Sum(v, n) == [k |-> "sum", v |-> v, n |-> n]

Inc(v) == [k |-> "inc", v |-> v, n |-> 0]

Mac(m) == [k |-> "mac", v |-> m, n |-> 0]

MacroBody(m) ==
    CASE m = "FORTY_TWO" -> <<Lit(42)>>
      [] m = "ONE_AND_TWO" -> <<Lit(1), Lit(2)>>

MacroName(m) ==
    CASE m = "FORTY_TWO" -> <<"F", "O", "R", "T", "Y", "_", "T", "W", "O">>
      [] m = "ONE_AND_TWO" -> <<"O", "N", "E", "_", "A", "N", "D", "_", "T", "W", "O">>

IsTemporary(e) == e.k \in {"lit", "sum", "inc"}

IsNamed(e) == e.k = "var"

SideEffectFree(args) == \A k \in 1..Len(args) : args[k].k # "inc"

---------------------------------------------------------------------------
(* Preprocessor: argument prescan, counting, stringification *)

Spelling(e) ==
    CASE e.k = "var" -> <<e.v>>
      [] e.k = "lit" -> ToText(e.n)
      [] e.k = "sum" -> <<e.v, " ", "+", " ">> \o ToText(e.n)
      [] e.k = "inc" -> <<e.v, "+", "+">>
      [] e.k = "mac" -> MacroName(e.v)

RECURSIVE Prescan(_)
Prescan(args) ==
    IF args = <<>> THEN <<>>
    ELSE (IF Head(args).k = "mac" THEN MacroBody(Head(args).v) ELSE <<Head(args)>>)
         \o Prescan(Tail(args))

DUMP_RSEQ_N == <<8, 7, 6, 5, 4, 3, 2, 1, 0>>

DUMP_ARG_N(s) == s[Len(DUMP_RSEQ_N)]

DUMP_NARG(va) == DUMP_ARG_N(va \o DUMP_RSEQ_N)

Compiles(va) == Len(va) < Len(DUMP_RSEQ_N)

DUMP_STRINGIZE(a) == Spelling(a)

\* variant: each row appends its own argument after the rest
RECURSIVE DUMP_FOR_EACH_N_reversed(_, _)
DUMP_FOR_EACH_N_reversed(n, va) ==
    IF n = 0 THEN <<>>
    ELSE DUMP_FOR_EACH_N_reversed(n - 1, Tail(va)) \o <<DUMP_STRINGIZE(Head(va))>>

RECURSIVE DUMP_FOR_EACH_N(_, _)
DUMP_FOR_EACH_N(n, va) ==
    IF n = 0 THEN <<>>
    ELSE IF n = 1 THEN <<DUMP_STRINGIZE(va[1])>>
    ELSE <<DUMP_STRINGIZE(Head(va))>> \o DUMP_FOR_EACH_N(n - 1, Tail(va))

DUMP_STRINGIFY(va) == DUMP_FOR_EACH_N(DUMP_NARG(va), va)

---------------------------------------------------------------------------
(* class Dump<F> *)

DefaultFieldSep == <<",", " ">>

DefaultKvSep == <<" ", "=", " ">>

Dump(field_sep, kv_sep, names, f) ==
    [field_sep_ |-> field_sep, kv_sep_ |-> kv_sep, names_ |-> names, f_ |-> f]

make_dump(names, f) == Dump(DefaultFieldSep, DefaultKvSep, names, f)

DUMP_INTERNAL(va) == make_dump(DUMP_STRINGIFY(va), va)

DUMP(args) == DUMP_INTERNAL(Prescan(args))

CaptureEvals(va) == [k \in 1..Len(va) |-> 0]

\* variant: the result is built with the default separators
as_defaultSeps(self, names) ==
    [self |-> self, ret |-> make_dump(names, self.f_)]

\* variant: labels past the end of the new list are kept
as_keepsTail(self, names) ==
    [self |-> self,
     ret  |-> Dump(self.field_sep_, self.kv_sep_,
                   names \o SubSeq(self.names_, Len(names) + 1, Len(self.names_)),
                   self.f_)]

as(self, names) ==
    [self |-> self,
     ret  |-> Dump(self.field_sep_, self.kv_sep_, names, self.f_)]

\* variant: the one-argument form resets the key-value separator
sep1_resetsKv(self, field_sep) ==
    [self EXCEPT !.field_sep_ = field_sep, !.kv_sep_ = DefaultKvSep]

sep1(self, field_sep) == [self EXCEPT !.field_sep_ = field_sep]

sep2(self, field_sep, kv_sep) ==
    [self EXCEPT !.field_sep_ = field_sep, !.kv_sep_ = kv_sep]

---------------------------------------------------------------------------
(* The closure body: evaluate __VA_ARGS__, bind to const T&, print *)

\* variant: the closure captures by copy ([=]) and computes from the copies
EvalArg_byCopy(e, en) ==
    CASE e.k = "var" -> [slot |-> [tmp |-> FALSE, v |-> e.v, val |-> 0], env |-> en]
      [] e.k = "lit" -> [slot |-> [tmp |-> TRUE, v |-> "-", val |-> e.n], env |-> en]
      [] e.k = "sum" -> [slot |-> [tmp |-> TRUE, v |-> "-", val |-> EnvInit[e.v] + e.n],
                         env |-> en]
      [] e.k = "inc" -> [slot |-> [tmp |-> TRUE, v |-> "-", val |-> en[e.v]],
                         env |-> [en EXCEPT ![e.v] = @ + 1]]

EvalArg(e, en) ==
    CASE e.k = "var" -> [slot |-> [tmp |-> FALSE, v |-> e.v, val |-> 0], env |-> en]
      [] e.k = "lit" -> [slot |-> [tmp |-> TRUE, v |-> "-", val |-> e.n], env |-> en]
      [] e.k = "sum" -> [slot |-> [tmp |-> TRUE, v |-> "-", val |-> en[e.v] + e.n],
                         env |-> en]
      [] e.k = "inc" -> [slot |-> [tmp |-> TRUE, v |-> "-", val |-> en[e.v]],
                         env |-> [en EXCEPT ![e.v] = @ + 1]]

IndexOrder(n, order) ==
    IF order = "ltr" THEN [j \in 1..n |-> j] ELSE [j \in 1..n |-> n + 1 - j]

RECURSIVE EvalFrom(_, _, _)
EvalFrom(idx, args, st) ==
    IF idx = <<>> THEN st
    ELSE LET k == Head(idx)
             r == EvalArg(args[k], st.env)
         IN  EvalFrom(Tail(idx), args,
                      [env   |-> r.env,
                       ts    |-> [st.ts EXCEPT ![k] = r.slot],
                       evals |-> [st.evals EXCEPT ![k] = @ + 1]])

EvalArgs(args, en, order) ==
    EvalFrom(IndexOrder(Len(args), order), args,
             [env   |-> en,
              ts    |-> [k \in 1..Len(args) |-> [tmp |-> FALSE, v |-> "-", val |-> 0]],
              evals |-> [k \in 1..Len(args) |-> 0]])

\* variant: the temporaries end before the fields are printed
LiveAtPrint_none(temps) == {}

LiveAtPrint(temps) == temps

\* variant: a named variable is read from a copy made at capture
Read_byCopy(slot, en, alive) ==
    IF slot.tmp THEN (IF alive THEN slot.val ELSE -1) ELSE EnvInit[slot.v]

Read(slot, en, alive) ==
    IF slot.tmp THEN (IF alive THEN slot.val ELSE -1) ELSE en[slot.v]

Garbage == <<"?">>

RECURSIVE print_fields(_, _, _, _, _, _, _)
print_fields(o, field_sep, kv_sep, names, n, ts, ub) ==
    IF ts = <<>> THEN [os |-> o, oob |-> FALSE, crashed |-> FALSE]
    ELSE LET inRange == n < Len(names)
             label   == IF inRange THEN names[n + 1] ELSE Garbage
         IN  IF ~inRange /\ ub = "crash"
             THEN [os |-> o, oob |-> TRUE, crashed |-> TRUE]
             ELSE IF Len(ts) = 1
             THEN [os |-> o \o label \o kv_sep \o ToText(ts[1]),
                   oob |-> ~inRange, crashed |-> FALSE]
             ELSE LET rest == print_fields(
                                  o \o label \o kv_sep \o ToText(ts[1]) \o field_sep,
                                  field_sep, kv_sep, names, n + 1, Tail(ts), ub)
                  IN  [rest EXCEPT !.oob = @ \/ ~inRange]

Lambda(f, o, field_sep, kv_sep, names, en, order, ub) ==
    LET ev    == EvalArgs(f, en, order)
        temps == {k \in 1..Len(f) : ev.ts[k].tmp}
        live  == LiveAtPrint(temps)
        shown == [k \in 1..Len(f) |-> Read(ev.ts[k], ev.env, k \in live)]
        pr    == print_fields(o, field_sep, kv_sep, names, 0, shown, ub)
    IN  [os       |-> pr.os,
         env      |-> ev.env,
         vals     |-> shown,
         evals    |-> ev.evals,
         oob      |-> pr.oob,
         crashed  |-> pr.crashed,
         dangling |-> \E k \in temps : k \notin live]

print_fields_(dump, o, en, order, ub) ==
    Lambda(dump.f_, o, dump.field_sep_, dump.kv_sep_, dump.names_, en, order, ub)

StreamInsert(o, dump, en, order, ub) == print_fields_(dump, o, en, order, ub)

\* variant: str() keeps writing to the stream of the previous call
FreshStream_reused(prior) == prior

FreshStream(prior) == <<>>

str(dump, prior, en, order, ub) == StreamInsert(FreshStream(prior), dump, en, order, ub)

ToStringHelper(dump, en, order, ub) == StreamInsert(<<>>, dump, en, order, ub)

---------------------------------------------------------------------------
(* Call sites and replacement label lists *)

ManyArgs ==
    <<Var("a"), Var("b"), Lit(3), Lit(5), Lit(7), Lit(11), Sum("a", 1), Lit(2)>>

CallSites ==
    {SubSeq(ManyArgs, 1, n) : n \in 0..Len(ManyArgs)}
    \cup {<<Lit(5)>>, <<Sum("a", 1)>>, <<Inc("a")>>,
          <<Mac("FORTY_TWO")>>, <<Mac("ONE_AND_TWO")>>,
          <<Var("a"), Inc("a")>>, <<Inc("a"), Sum("a", 1)>>,
          SubSeq(ManyArgs, 1, 6) \o <<Mac("ONE_AND_TWO")>>,
          SubSeq(ManyArgs, 1, 7) \o <<Mac("ONE_AND_TWO")>>}

AsAlphabet == <<"x", "y", "z">>

AsList(len, shift) ==
    [j \in 1..len |-> <<AsAlphabet[((j + shift) % Len(AsAlphabet)) + 1]>>]

AsLists(count) ==
    {AsList(len, shift) : len \in {0, count - 1, count, count + 1} \cap Nat,
                          shift \in {0, 1}}

FieldSeps == {<<"\n">>}

KvSeps == {<<":", "=">>}

IncCount(args, v) == Cardinality({k \in 1..Len(args) : args[k].k = "inc" /\ args[k].v = v})

---------------------------------------------------------------------------
(* State machine *)

Op(name, i, args) == [name |-> name, i |-> i, args |-> args]

Init ==
    /\ pc = "start"
    /\ site \in CallSites
    /\ env = EnvInit
    /\ recs = <<>>
    /\ os = <<>>
    /\ last = 0
    /\ vals = <<>>
    /\ evals = <<>>
    /\ streak = 0
    /\ oob = FALSE
    /\ dangling = FALSE
    /\ viaMismatch = FALSE
    /\ op = Op("init", 0, <<>>)

\* auto d = DUMP(site...);
Capture ==
    /\ pc = "start"
    /\ Compiles(Prescan(site))
    /\ recs' = <<DUMP(site)>>
    /\ evals' = CaptureEvals(Prescan(site))
    /\ pc' = "run"
    /\ op' = Op("capture", 1, <<>>)
    /\ UNCHANGED <<site, env, os, last, vals, streak, oob, dangling, viaMismatch>>

\* v = x;  in the enclosing scope (int a; const int b)
Mutate(v, x) ==
    /\ pc = "run"
    /\ v \in Mutable
    /\ x # env[v]
    /\ env' = [env EXCEPT ![v] = x]
    /\ streak' = 0
    /\ op' = Op("mutate", 0, <<>>)
    /\ UNCHANGED <<pc, site, recs, os, last, vals, evals, oob, dangling, viaMismatch>>

Forget ==
    /\ os' = <<>>
    /\ last' = 0
    /\ vals' = <<>>
    /\ streak' = 0
    /\ oob' = FALSE
    /\ dangling' = FALSE

\* recs[2] = recs[i].as(names...);  a previous recs[2] is a temporary of the chain
As(i, names) ==
    /\ pc = "run"
    /\ i \in 1..Len(recs)
    /\ LET res == as(recs[i], names)
       IN  recs' = IF i = 1 THEN <<res.self, res.ret>> ELSE <<recs[1], res.ret>>
    /\ viaMismatch' = (i = 2 /\ Len(recs[i].names_) # Len(recs[i].f_))
    /\ evals' = [k \in 1..Len(recs[i].f_) |-> 0]
    /\ Forget
    /\ op' = Op("as", i, names)
    /\ UNCHANGED <<pc, site, env>>

\* recs[i].sep(field_sep);
Sep1(i, field_sep) ==
    /\ pc = "run"
    /\ i \in 1..Len(recs)
    /\ recs' = [recs EXCEPT ![i] = sep1(@, field_sep)]
    /\ evals' = [k \in 1..Len(recs[i].f_) |-> 0]
    /\ Forget
    /\ op' = Op("sep", i, <<field_sep>>)
    /\ UNCHANGED <<pc, site, env, viaMismatch>>

\* recs[i].sep(field_sep, kv_sep);
Sep2(i, field_sep, kv_sep) ==
    /\ pc = "run"
    /\ i \in 1..Len(recs)
    /\ recs' = [recs EXCEPT ![i] = sep2(@, field_sep, kv_sep)]
    /\ evals' = [k \in 1..Len(recs[i].f_) |-> 0]
    /\ Forget
    /\ op' = Op("sep", i, <<field_sep, kv_sep>>)
    /\ UNCHANGED <<pc, site, env, viaMismatch>>

Rendered(i, how, r) ==
    /\ op' = Op(how, i, <<>>)
    /\ os' = r.os
    /\ env' = r.env
    /\ vals' = r.vals
    /\ evals' = r.evals
    /\ oob' = r.oob
    /\ dangling' = r.dangling
    /\ pc' = IF r.crashed THEN "crashed" ELSE "run"
    /\ last' = i
    /\ streak' = IF last = i /\ streak >= 1 THEN 2 ELSE 1
    /\ UNCHANGED <<site, recs, viaMismatch>>

CanRender(i) ==
    /\ pc = "run"
    /\ i \in 1..Len(recs)
    /\ \A v \in Vars : env[v] + IncCount(recs[i].f_, v) <= MaxVal

\* ToString(recs[i])  i.e.  oss << recs[i]
Stream(i, order, ub) ==
    /\ CanRender(i)
    /\ Rendered(i, "stream", ToStringHelper(recs[i], env, order, ub))

\* recs[i].str()
Str(i, order, ub) ==
    /\ CanRender(i)
    /\ Rendered(i, "str", str(recs[i], os, env, order, ub))

\* The evaluation order is observable only with a side effect among the
\* arguments, the outcome of an out-of-range read only when one happens.
OrdersOf(i) ==
    IF i \in 1..Len(recs) /\ ~SideEffectFree(recs[i].f_) THEN Orders ELSE {"ltr"}

OutcomesOf(i) ==
    IF i \in 1..Len(recs) /\ Len(recs[i].names_) < Len(recs[i].f_)
    THEN UBOutcomes ELSE {"garbage"}

Next ==
    \/ Capture
    \/ \E v \in Mutable, x \in 0..MaxVal : Mutate(v, x)
    \/ \E i \in 1..2 : \E names \in AsLists(Len(Prescan(site))) : As(i, names)
    \/ \E i \in 1..2, fs \in FieldSeps : Sep1(i, fs)
    \/ \E i \in 1..2, fs \in FieldSeps, kv \in KvSeps : Sep2(i, fs, kv)
    \/ \E i \in 1..2 : \E order \in OrdersOf(i), ub \in OutcomesOf(i) : Stream(i, order, ub)
    \/ \E i \in 1..2 : \E order \in OrdersOf(i), ub \in OutcomesOf(i) : Str(i, order, ub)

Spec == Init /\ [][Next]_vars

---------------------------------------------------------------------------
(* Vocabulary of the properties *)

Labels(args) == [k \in 1..Len(args) |-> Spelling(args[k])]

PadLabels(names, n) ==
    [k \in 1..n |-> IF k <= Len(names) THEN names[k] ELSE Garbage]

\* label kv value, joined by fs: the text of the pairs from the k-th on
RECURSIVE JoinFrom(_, _, _, _, _)
JoinFrom(labels, shown, fs, kv, k) ==
    IF k > Len(shown) THEN <<>>
    ELSE labels[k] \o kv \o ToText(shown[k])
         \o (IF k < Len(shown) THEN fs ELSE <<>>)
         \o JoinFrom(labels, shown, fs, kv, k + 1)

IsPrefix(p, t) == Len(p) <= Len(t) /\ SubSeq(t, 1, Len(p)) = p

\* values a temporary expression can have while its variable moves from lo to hi
PossibleValues(e, lo, hi) ==
    CASE e.k = "lit" -> {e.n}
      [] e.k = "sum" -> {x + e.n : x \in lo[e.v]..hi[e.v]}
      [] e.k = "inc" -> lo[e.v]..hi[e.v]
      [] OTHER -> {}

\* the step is a render of recs[i], an as() call on it, a sep() call on it
RenderStep(i) == op'.name \in {"stream", "str"} /\ op'.i = i

AsStep(i) == op'.name = "as" /\ op'.i = i

SepStep(i) == op'.name = "sep" /\ op'.i = i

SameSeps(r1, r2) == r1.field_sep_ = r2.field_sep_ /\ r1.kv_sep_ = r2.kv_sep_

---------------------------------------------------------------------------
(* C1 *)

---------------------------------------------------------------------------
(* C2 *)

\* C2: with the default separators a render is '{' + the pairs joined by
\* ", " with " = " inside each pair + '}'; zero arguments render as "{}".
C2_BracedText ==
    (/\ last # 0
     /\ pc = "run"
     /\ ~oob
     /\ recs[last].field_sep_ = DefaultFieldSep
     /\ recs[last].kv_sep_ = DefaultKvSep)
    => os = <<"{">>
            \o JoinFrom(recs[last].names_, vals, DefaultFieldSep, DefaultKvSep, 1)
            \o <<"}">>

---------------------------------------------------------------------------
(* C3 *)

\* C3: every record holds as many labels as captured values, and no render
\* reads a label index at or past the label count.
C3_LabelCountMatches ==
    /\ \A i \in 1..Len(recs) : Len(recs[i].names_) = Len(recs[i].f_)
    /\ ~oob

---------------------------------------------------------------------------
(* C4 *)

\* C4 (as amended): every render re-evaluates a computed temporary
\* expression and shows the value it has during that render, so a mutation of
\* a variable it reads between two renders is visible in the later one.
C4_ReEvaluated ==
    [][\A i \in 1..2 : RenderStep(i) =>
          \A k \in 1..Len(recs[i].f_) :
              IsTemporary(recs[i].f_[k])
                  => vals'[k] \in PossibleValues(recs[i].f_[k], env, env')]_vars

C4_Witness ==
    /\ last # 0
    /\ streak >= 1
    /\ \E k \in 1..Len(vals) :
          /\ recs[last].f_[k].k = "sum"
          /\ vals[k] # EnvInit[recs[last].f_[k].v] + recs[last].f_[k].n

\* C4 (as stated): a render of the record rendered before shows, for every
\* computed temporary, the value the earlier render showed.
C4_FrozenAtFirstEvaluation ==
    [][\A i \in 1..2 : (RenderStep(i) /\ last = i) =>
          \A k \in 1..Len(recs[i].f_) :
              IsTemporary(recs[i].f_[k]) => vals'[k] = vals[k]]_vars

---------------------------------------------------------------------------
(* C5 *)

\* C5: capture (and as/sep) evaluates no argument, a render evaluates each
\* argument exactly once, and a named variable is shown with the value it
\* holds at render time.
C5_NamedReadAtRender ==
    /\ last = 0 => \A k \in 1..Len(evals) : evals[k] = 0
    /\ last # 0 =>
          /\ Len(evals) = Len(recs[last].f_)
          /\ \A k \in 1..Len(evals) : evals[k] = 1
          /\ streak >= 1 =>
                \A k \in 1..Len(vals) :
                    IsNamed(recs[last].f_[k]) => vals[k] = env[recs[last].f_[k].v]

C5_Witness ==
    /\ last # 0
    /\ streak >= 1
    /\ \E k \in 1..Len(vals) :
          /\ IsNamed(recs[last].f_[k])
          /\ vals[k] = env[recs[last].f_[k].v]
          /\ vals[k] # EnvInit[recs[last].f_[k].v]

---------------------------------------------------------------------------
(* C6 *)

\* C6: as() with exactly as many labels as captured values returns a record
\* with the receiver's closure and separators and the new labels, which
\* renders the same values in the same order; the receiver is unchanged.
C6_AsFrame ==
    [][\A i \in 1..2 :
          (AsStep(i) /\ Len(op'.args) = Len(recs[i].f_)) =>
              /\ recs'[1] = recs[1]
              /\ recs'[2].f_ = recs[i].f_
              /\ SameSeps(recs'[2], recs[i])
              /\ recs'[2].names_ = op'.args
              /\ \A order \in Orders :
                    LET a == ToStringHelper(recs'[2], env, order, "garbage")
                        b == ToStringHelper(recs[i], env, order, "garbage")
                    IN  /\ a.vals = b.vals
                        /\ a.os = JoinFrom(op'.args, b.vals, recs[i].field_sep_,
                                           recs[i].kv_sep_, 1)]_vars

C6_Witness ==
    /\ Len(recs) = 2
    /\ last = 2
    /\ pc = "run"
    /\ Len(recs[2].names_) = Len(recs[2].f_)
    /\ Len(recs[2].f_) >= 2
    /\ recs[2].field_sep_ # DefaultFieldSep
    /\ recs[1].names_ = Labels(Prescan(site))

---------------------------------------------------------------------------
(* C7 *)

\* C7: sep(fs) replaces the field separator only, sep(fs, kv) replaces both;
\* neither touches labels or closure, and a render uses the record's current
\* separators between all pairs and inside each pair.
C7_SepFrame ==
    [][/\ \A i \in 1..2 :
            SepStep(i) =>
                /\ recs'[i].field_sep_ = op'.args[1]
                /\ recs'[i].kv_sep_ =
                       (IF Len(op'.args) = 1 THEN recs[i].kv_sep_ ELSE op'.args[2])
                /\ recs'[i].names_ = recs[i].names_
                /\ recs'[i].f_ = recs[i].f_
                /\ \A j \in 1..Len(recs) : j # i => recs'[j] = recs[j]
       /\ \A i \in 1..2 :
            RenderStep(i) =>
                LET text == JoinFrom(PadLabels(recs[i].names_, Len(vals')), vals',
                                     recs[i].field_sep_, recs[i].kv_sep_, 1)
                IN  IF pc' = "run" THEN os' = text ELSE IsPrefix(os', text)]_vars

C7_Witness ==
    /\ last # 0
    /\ pc = "run"
    /\ Len(vals) >= 2
    /\ recs[last].field_sep_ \in FieldSeps
    /\ recs[last].kv_sep_ = DefaultKvSep

---------------------------------------------------------------------------
(* C8 *)

\* C8 (as amended): a render never changes the record; when the argument
\* expressions have no side effect it changes no variable either, and a
\* second render with nothing in between produces the same text.
C8_IdempotentWhenPure ==
    [][\A i \in 1..2 : RenderStep(i) =>
          /\ recs' = recs
          /\ SideEffectFree(recs[i].f_) =>
                /\ env' = env
                /\ (last = i /\ streak >= 1 /\ pc' = "run") => os' = os]_vars

C8_Witness ==
    /\ streak = 2
    /\ pc = "run"
    /\ SideEffectFree(recs[last].f_)
    /\ Len(vals) >= 1

\* C8 (as stated): a render changes neither the record nor the referenced
\* variables, and a second render with nothing in between produces the same
\* text.
C8_Idempotent ==
    [][\A i \in 1..2 : RenderStep(i) =>
          /\ recs' = recs
          /\ env' = env
          /\ (last = i /\ streak >= 1 /\ pc' = "run") => os' = os]_vars

---------------------------------------------------------------------------
(* C9 *)

\* C9: as() replaces the whole label list: applied to the result of earlier
\* as() calls of any lengths, a call with as many labels as captured values
\* gives the record that the same call gives on the captured record.
C9_LastAsWins ==
    [][\A i \in 1..2 :
          (AsStep(i) /\ Len(op'.args) = Len(recs[1].f_)) =>
              /\ recs'[2].names_ = op'.args
              /\ SameSeps(recs[i], recs[1]) =>
                    /\ recs'[2] = as(recs[1], op'.args).ret
                    /\ \A order \in Orders :
                          LET a == ToStringHelper(recs'[2], env, order, "garbage")
                          IN  a.os = JoinFrom(op'.args, a.vals, recs[1].field_sep_,
                                              recs[1].kv_sep_, 1)]_vars

C9_Witness ==
    /\ Len(recs) = 2
    /\ viaMismatch
    /\ last = 2
    /\ pc = "run"
    /\ Len(recs[2].f_) >= 1
    /\ Len(recs[2].names_) = Len(recs[2].f_)

---------------------------------------------------------------------------
(* C10 *)

====
